---- MODULE Spec2Model ----
(***************************************************************************)
(* Model of src/main.py: the domain normalizer, the SQLite mapping store   *)
(* and the FastAPI routes above it.                                        *)
(*                                                                         *)
(* A Python str is a sequence of one-character strings.  A redirect is an  *)
(* opaque URL token: the code never looks inside it.  Python None and SQL  *)
(* NULL are the token None.                                                *)
(***************************************************************************)
EXTENDS Integers, Sequences, FiniteSets, TLC

VARIABLES
    API_KEY,    \* main.py:23, read once at import
    schema,     \* TRUE when the table "mappings" exists in the database file
    mappings,   \* the rows of the table "mappings": a set of [domain, redirect]
    last,       \* the request handled last and its response
    input,      \* normalizer harness: the raw string
    out1,       \* normalizer harness: normalize_domain(input)
    out2,       \* normalizer harness: normalize_domain(out1)
    phase,      \* normalizer harness: how many times normalize_domain was applied
    pc,         \* concurrent callers: where each caller is inside set_mapping
    req,        \* concurrent callers: the key and redirect of the call in progress
    txn,        \* concurrent callers: the rows staged in each connection's open transaction
    writer,     \* the connection holding the database's write lock, None when free
    outcome,    \* concurrent callers: how each caller's latest call ended
    lastWrite,  \* for each key, the redirect of the write committed last, Absent after a delete
    bulk,       \* concurrent callers: the bulk_register call in progress, if any
    fetched,    \* concurrent callers: what the caller's latest SELECT or DELETE gave it
    window      \* for a caller inside a read: per key, the values the key has had since the call began

vars == <<API_KEY, schema, mappings, last, input, out1, out2, phase,
          pc, req, txn, writer, outcome, lastWrite, bulk, fetched, window>>

None == "<None>"

----------------------------------------------------------------------------
(* Bounds *)

MaxParts == 3       \* normalizer inputs are concatenations of at most MaxParts chunks
MaxBulk == 2        \* bulk_register bodies hold at most MaxBulk items

----------------------------------------------------------------------------
(* Strings *)

HTTP == <<"h", "t", "t", "p", ":", "/", "/">>
HTTPS == <<"h", "t", "t", "p", "s", ":", "/", "/">>
WWW == <<"w", "w", "w", ".">>
SLASH == "/"

\* str.strip() with no argument removes leading and trailing whitespace
Whitespace == {" "}

\* str.lower() on the letters of the alphabet used here
LowerOf == [c \in {"A", "B", "H", "P", "S", "T", "W"} |->
              CASE c = "A" -> "a" [] c = "B" -> "b" [] c = "H" -> "h"
                [] c = "P" -> "p" [] c = "S" -> "s" [] c = "T" -> "t"
                [] c = "W" -> "w"]

\* code points, for the byte-wise comparison SQLite's BINARY collation makes
Ord == [c \in {" ", ".", "/", ":", "A", "B", "H", "P", "S", "T", "W",
               "a", "b", "h", "p", "s", "t", "w"} |->
          CASE c = " " -> 32 [] c = "." -> 46 [] c = "/" -> 47 [] c = ":" -> 58
            [] c = "A" -> 65 [] c = "B" -> 66 [] c = "H" -> 72 [] c = "P" -> 80
            [] c = "S" -> 83 [] c = "T" -> 84 [] c = "W" -> 87
            [] c = "a" -> 97 [] c = "b" -> 98 [] c = "h" -> 104 [] c = "p" -> 112
            [] c = "s" -> 115 [] c = "t" -> 116 [] c = "w" -> 119]

Drop(s, n) == SubSeq(s, n + 1, Len(s))

RECURSIVE LStrip(_)
LStrip(s) == IF s # <<>> /\ Head(s) \in Whitespace THEN LStrip(Tail(s)) ELSE s

RECURSIVE RStrip(_)
RStrip(s) == IF s # <<>> /\ s[Len(s)] \in Whitespace
             THEN RStrip(SubSeq(s, 1, Len(s) - 1)) ELSE s

Strip(s) == RStrip(LStrip(s))

Lower(s) == [i \in 1..Len(s) |-> IF s[i] \in DOMAIN LowerOf THEN LowerOf[s[i]] ELSE s[i]]

StartsWith(s, p) == Len(s) >= Len(p) /\ SubSeq(s, 1, Len(p)) = p

\* str.removeprefix(p): removes p once when s starts with it
RemovePrefix(s, p) == IF StartsWith(s, p) THEN Drop(s, Len(p)) ELSE s

\* s.split(sep)[0]: the part of s before the first sep, all of s without one
RECURSIVE SplitFirst(_, _)
SplitFirst(s, sep) ==
    IF s = <<>> \/ Head(s) = sep THEN <<>>
    ELSE <<Head(s)>> \o SplitFirst(Tail(s), sep)

----------------------------------------------------------------------------
(* Normalizer, main.py:75-76 *)

normalize_domain_keep_www(domain) ==
    SplitFirst(RemovePrefix(RemovePrefix(Lower(Strip(domain)), HTTP), HTTPS), SLASH)

normalize_domain(domain) ==
    SplitFirst(
        RemovePrefix(RemovePrefix(RemovePrefix(Lower(Strip(domain)), HTTP), HTTPS), WWW),
        SLASH)

----------------------------------------------------------------------------
(* SQL statements on the table mappings(domain TEXT PRIMARY KEY, redirect TEXT). *)
(* The order of the rows in storage is not observable: every SELECT of the   *)
(* source has WHERE domain = ? or ORDER BY domain.                           *)

Row(d, r) == [domain |-> d, redirect |-> r]

RowsFor(rows, d) == {row \in rows : row.domain = d}

\* INSERT INTO mappings VALUES(?, ?) on a table without the primary key
InsertUnkeyed(rows, d, r) == [rows |-> rows \cup {Row(d, r)}, raised |-> FALSE]

\* INSERT INTO mappings VALUES(?, ?) without the ON CONFLICT clause: the
\* primary key makes it raise sqlite3.IntegrityError when the row exists
InsertOnly(rows, d, r) ==
    IF RowsFor(rows, d) # {}
    THEN [rows |-> rows, raised |-> TRUE]
    ELSE [rows |-> rows \cup {Row(d, r)}, raised |-> FALSE]

\* INSERT ... ON CONFLICT(domain) DO UPDATE SET redirect=excluded.redirect
InsertOnConflictUpdate(rows, d, r) ==
    IF RowsFor(rows, d) # {}
    THEN [rows |-> {IF row.domain = d THEN Row(d, r) ELSE row : row \in rows},
          raised |-> FALSE]
    ELSE [rows |-> rows \cup {Row(d, r)}, raised |-> FALSE]

\* DELETE FROM mappings WHERE domain = ?, with cursor.rowcount
DeleteWhere(rows, d) ==
    [rows |-> rows \ RowsFor(rows, d), rowcount |-> Cardinality(RowsFor(rows, d))]

\* byte-wise comparison of two strings (BINARY collation)
RECURSIVE StrLess(_, _)
StrLess(a, b) ==
    IF b = <<>> THEN FALSE
    ELSE IF a = <<>> THEN TRUE
    ELSE IF Head(a) = Head(b) THEN StrLess(Tail(a), Tail(b))
    ELSE Ord[Head(a)] < Ord[Head(b)]

\* SELECT domain, redirect FROM mappings ORDER BY domain
RECURSIVE SelectOrderByDomain(_)
SelectOrderByDomain(rows) ==
    IF rows = {} THEN <<>>
    ELSE LET first == CHOOSE row \in rows :
                          \A other \in rows : ~StrLess(other.domain, row.domain)
         IN  <<first>> \o SelectOrderByDomain(rows \ {first})

----------------------------------------------------------------------------
(* Store functions, main.py:27-39 and 78-111 *)

\* DROP TABLE followed by CREATE TABLE
init_db_recreate(exists, rows) == {}

\* CREATE TABLE IF NOT EXISTS mappings (...)
init_db(exists, rows) == IF exists THEN rows ELSE {}

get_redirect_for_raw(rows, domain) ==
    LET found == RowsFor(rows, domain)
    IN  IF found = {} THEN None ELSE (CHOOSE row \in found : TRUE).redirect

get_redirect_for(rows, domain) ==
    LET d == normalize_domain(domain)
        found == RowsFor(rows, d)
    IN  IF found = {} THEN None ELSE (CHOOSE row \in found : TRUE).redirect

set_mapping_unkeyed(rows, domain, redirect) ==
    InsertUnkeyed(rows, normalize_domain(domain), redirect)

set_mapping_insert_only(rows, domain, redirect) ==
    InsertOnly(rows, normalize_domain(domain), redirect)

\* an upsert whose DO UPDATE reaches every row instead of the conflicting one
set_mapping_update_all(rows, domain, redirect) ==
    LET d == normalize_domain(domain)
    IN  IF RowsFor(rows, d) # {}
        THEN [rows |-> {Row(row.domain, redirect) : row \in rows}, raised |-> FALSE]
        ELSE [rows |-> rows \cup {Row(d, redirect)}, raised |-> FALSE]

set_mapping(rows, domain, redirect) ==
    InsertOnConflictUpdate(rows, normalize_domain(domain), redirect)

remove_mapping_always_true(rows, domain) ==
    LET del == DeleteWhere(rows, normalize_domain(domain))
    IN  [rows |-> del.rows, result |-> TRUE]

remove_mapping(rows, domain) ==
    LET del == DeleteWhere(rows, normalize_domain(domain))
    IN  [rows |-> del.rows, result |-> del.rowcount # 0]

\* ORDER BY domain DESC
list_mappings_descending(rows) ==
    LET asc == SelectOrderByDomain(rows)
    IN  [i \in 1..Len(asc) |-> asc[Len(asc) + 1 - i]]

\* a listing that leaves out the rows whose redirect is NULL
list_mappings_non_null(rows) ==
    SelectOrderByDomain({row \in rows : row.redirect # None})

list_mappings(rows) == SelectOrderByDomain(rows)

\* x_api_key != API_KEY alone: a missing header is let through
require_api_key_present_only(x_api_key) ==
    IF API_KEY # None /\ API_KEY # ""
    THEN ~(x_api_key # None /\ x_api_key # "" /\ x_api_key # API_KEY)
    ELSE TRUE

\* main.py:114-119; FALSE stands for the HTTPException with status 401.
\* "if API_KEY" and "not x_api_key" are Python truthiness: None and "" are falsy.
require_api_key(x_api_key) ==
    IF API_KEY # None /\ API_KEY # ""
    THEN ~(x_api_key = None \/ x_api_key = "" \/ x_api_key # API_KEY)
    ELSE TRUE

----------------------------------------------------------------------------
(* Requests *)

ApiKeys == {None, "secret"}                 \* os.getenv("API_KEY")
Headers == {None, "secret", "wrong"}        \* the X-API-Key header, None when missing
Redirects == {None, "https://x", "https://y"}

\* raw domains sent to the routes: "", " ", "a", "A", "www.a", "www.www.a"
RawDomains == { <<>>, <<" ">>, <<"a">>, <<"A">>, WWW \o <<"a">>, WWW \o WWW \o <<"a">> }

\* items of a bulk body: ("", x), ("A", x), ("www.a", None)
BulkItems == { [domain |-> <<>>, redirect |-> "https://x"],
               [domain |-> <<"A">>, redirect |-> "https://x"],
               [domain |-> WWW \o <<"a">>, redirect |-> None] }

RECURSIVE SeqsUpTo(_, _)
SeqsUpTo(S, n) == IF n = 0 THEN {<<>>}
                  ELSE SeqsUpTo(S, n - 1) \cup
                       {q \o <<x>> : q \in SeqsUpTo(S, n - 1), x \in S}

BulkBodies == SeqsUpTo(BulkItems, MaxBulk)

NoBody == [redirect |-> None, domain |-> <<>>, mapping |-> <<>>, added |-> 0]

\* the request handled and the response sent; db says whether the handler
\* reached the database ("none", "read" or "write"), and prior holds the rows
\* that the key of a register or unregister call had before the call
Handled(op, hdr, domain, redirect, items, status, body, db, prior) ==
    [op |-> op, hdr |-> hdr, domain |-> domain, redirect |-> redirect, items |-> items,
     status |-> status, body |-> body, db |-> db, prior |-> prior]

Start == Handled("start", None, <<>>, None, <<>>, 0, NoBody, "none", {})

Harness == <<input, out1, out2, phase>>

\* concurrent callers of the store
Callers == {"c1", "c2"}
Absent == "<absent>"
ConcDomains == { <<"a">>, <<"A">>, <<"B">> }
ConcKeys == {normalize_domain(d) : d \in ConcDomains}
NoReq == [domain |-> <<>>, redirect |-> None]
NoBulk == [active |-> FALSE, items |-> <<>>, todo |-> <<>>, before |-> {}]
NoFetch == [what |-> "none", key |-> <<>>, row |-> Absent, rows |-> <<>>, rowcount |-> 0]
NoWindow == [k \in ConcKeys |-> {}]

Job == <<bulk, fetched, window>>

Conc == <<pc, req, txn, writer, outcome, lastWrite, Job>>

ConcIdle ==
    /\ pc = [c \in Callers |-> "idle"]
    /\ req = [c \in Callers |-> NoReq]
    /\ txn = [c \in Callers |-> {}]
    /\ writer = None
    /\ outcome = [c \in Callers |-> "none"]
    /\ lastWrite = [k \in ConcKeys |-> Absent]
    /\ bulk = [c \in Callers |-> NoBulk]
    /\ fetched = [c \in Callers |-> NoFetch]
    /\ window = [c \in Callers |-> NoWindow]

----------------------------------------------------------------------------
(* Routes, main.py:122-178.  A handler is "async def" and never awaits, so   *)
(* within the process each request is handled in one step.                  *)

Init ==
    /\ API_KEY \in ApiKeys
    /\ schema = TRUE            \* init_db() ran at import, main.py:41
    /\ mappings = {}
    /\ last = Start
    /\ input = <<>>
    /\ out1 = <<>>
    /\ out2 = <<>>
    /\ phase = 0
    /\ ConcIdle

\* the process starts again on the same database file: main.py:41
InitDb ==
    /\ mappings' = init_db(schema, mappings)
    /\ schema' = TRUE
    /\ last' = Handled("init_db", None, <<>>, None, <<>>, 0, NoBody, "write", {})
    /\ UNCHANGED <<API_KEY, Harness, Conc>>

\* a lookup that stores a row with a NULL redirect when it finds none
Check_get_or_create(domain) ==
    /\ IF domain = <<>>
       THEN /\ last' = Handled("check", None, domain, None, <<>>, 400, NoBody, "none", {})
            /\ UNCHANGED mappings
       ELSE /\ last' = Handled("check", None, domain, None, <<>>, 200,
                               [NoBody EXCEPT !.redirect = get_redirect_for(mappings, domain)],
                               "read", {})
            /\ mappings' = IF RowsFor(mappings, normalize_domain(domain)) = {}
                           THEN mappings \cup {Row(normalize_domain(domain), None)}
                           ELSE mappings
    /\ UNCHANGED <<API_KEY, schema, Harness, Conc>>

\* POST /check, main.py:122-132: the route has no dependency on require_api_key
\* and its handler takes no header, so the request's X-API-Key is not an input
Check(domain) ==
    /\ IF domain = <<>>
       THEN last' = Handled("check", None, domain, None, <<>>, 400, NoBody, "none", {})
       ELSE last' = Handled("check", None, domain, None, <<>>, 200,
                            [NoBody EXCEPT !.redirect = get_redirect_for(mappings, domain)],
                            "read", {})
    /\ UNCHANGED <<API_KEY, schema, mappings, Harness, Conc>>

\* POST /register, main.py:134-146
Register(hdr, domain, redirect) ==
    /\ IF ~require_api_key(hdr)
       THEN /\ last' = Handled("register", hdr, domain, redirect, <<>>, 401, NoBody, "none", {})
            /\ UNCHANGED mappings
       ELSE IF domain = <<>>
       THEN /\ last' = Handled("register", hdr, domain, redirect, <<>>, 400, NoBody, "none", {})
            /\ UNCHANGED mappings
       ELSE LET w == set_mapping(mappings, domain, redirect)
            IN  /\ mappings' = w.rows
                /\ last' = IF w.raised
                           THEN Handled("register", hdr, domain, redirect, <<>>, 500,
                                        NoBody, "write", RowsFor(mappings, normalize_domain(domain)))
                           ELSE Handled("register", hdr, domain, redirect, <<>>, 200,
                                        [NoBody EXCEPT !.domain = normalize_domain(domain),
                                                       !.redirect = redirect],
                                        "write", RowsFor(mappings, normalize_domain(domain)))
    /\ UNCHANGED <<API_KEY, schema, Harness, Conc>>

\* GET /mappings, main.py:148-153
Mappings(hdr) ==
    /\ IF ~require_api_key(hdr)
       THEN last' = Handled("mappings", hdr, <<>>, None, <<>>, 401, NoBody, "none", {})
       ELSE last' = Handled("mappings", hdr, <<>>, None, <<>>, 200,
                            [NoBody EXCEPT !.mapping = list_mappings(mappings)], "read", {})
    /\ UNCHANGED <<API_KEY, schema, mappings, Harness, Conc>>

\* DELETE /unregister, main.py:155-165
Unregister(hdr, domain) ==
    /\ IF ~require_api_key(hdr)
       THEN /\ last' = Handled("unregister", hdr, domain, None, <<>>, 401, NoBody, "none", {})
            /\ UNCHANGED mappings
       ELSE IF domain = <<>>
       THEN /\ last' = Handled("unregister", hdr, domain, None, <<>>, 400, NoBody, "none", {})
            /\ UNCHANGED mappings
       ELSE LET del == remove_mapping(mappings, domain)
            IN  /\ mappings' = del.rows
                /\ last' = IF ~del.result
                           THEN Handled("unregister", hdr, domain, None, <<>>, 404,
                                        NoBody, "write", RowsFor(mappings, normalize_domain(domain)))
                           ELSE Handled("unregister", hdr, domain, None, <<>>, 200,
                                        [NoBody EXCEPT !.domain = normalize_domain(domain)],
                                        "write", RowsFor(mappings, normalize_domain(domain)))
    /\ UNCHANGED <<API_KEY, schema, Harness, Conc>>

\* the loop run over the items from the last to the first
RECURSIVE bulk_loop_reversed(_, _)
bulk_loop_reversed(rows, items) ==
    IF items = <<>> THEN [rows |-> rows, raised |-> FALSE]
    ELSE LET it == items[Len(items)]
             rest == SubSeq(items, 1, Len(items) - 1)
         IN  IF it.domain # <<>>
             THEN LET w == set_mapping(rows, it.domain, it.redirect)
                  IN  IF w.raised THEN w ELSE bulk_loop_reversed(w.rows, rest)
             ELSE bulk_loop_reversed(rows, rest)

\* the loop of bulk_register, main.py:175-177: each set_mapping commits on its
\* own, and an exception leaves the loop with the earlier items stored
RECURSIVE bulk_loop(_, _)
bulk_loop(rows, items) ==
    IF items = <<>> THEN [rows |-> rows, raised |-> FALSE]
    ELSE IF Head(items).domain # <<>>
    THEN LET w == set_mapping(rows, Head(items).domain, Head(items).redirect)
         IN  IF w.raised THEN w ELSE bulk_loop(w.rows, Tail(items))
    ELSE bulk_loop(rows, Tail(items))

\* POST /bulk_register, main.py:173-178
BulkRegister(hdr, items) ==
    /\ IF ~require_api_key(hdr)
       THEN /\ last' = Handled("bulk_register", hdr, <<>>, None, items, 401, NoBody, "none", {})
            /\ UNCHANGED mappings
       ELSE LET w == bulk_loop(mappings, items)
            IN  /\ mappings' = w.rows
                /\ last' = IF w.raised
                           THEN Handled("bulk_register", hdr, <<>>, None, items, 500,
                                        NoBody, "write", {})
                           ELSE Handled("bulk_register", hdr, <<>>, None, items, 200,
                                        [NoBody EXCEPT !.added = Len(items)], "write", {})
    /\ UNCHANGED <<API_KEY, schema, Harness, Conc>>

Next ==
    \/ InitDb
    \/ \E domain \in RawDomains : Check(domain)
    \/ \E hdr \in Headers, domain \in RawDomains, redirect \in Redirects :
           Register(hdr, domain, redirect)
    \/ \E hdr \in Headers : Mappings(hdr)
    \/ \E hdr \in Headers, domain \in RawDomains : Unregister(hdr, domain)
    \/ \E hdr \in Headers, items \in BulkBodies : BulkRegister(hdr, items)

Spec == Init /\ [][Next]_vars

\* The same application started on a storage location that holds no database
\* yet: the import runs init_db() (main.py:41) before any route is served.
BootInit ==
    /\ API_KEY \in ApiKeys
    /\ schema = FALSE
    /\ mappings = {}
    /\ last = Start
    /\ input = <<>>
    /\ out1 = <<>>
    /\ out2 = <<>>
    /\ phase = 0
    /\ ConcIdle

BootNext ==
    \/ ~schema /\ InitDb
    \/ schema /\ Next

SpecBoot == BootInit /\ [][BootNext]_vars

----------------------------------------------------------------------------
(* set_mapping called by two callers at once (two server processes on one    *)
(* database file), main.py:87-93, one step per statement.  Each call opens   *)
(* its own connection (main.py:72-73).  SQLite lets one connection at a time *)
(* hold the write lock: the INSERT of a second connection waits in the busy  *)
(* handler until the first has committed.                                    *)

ConcInit ==
    /\ API_KEY = None
    /\ schema = TRUE
    /\ mappings = {}
    /\ last = Start
    /\ input = <<>>
    /\ out1 = <<>>
    /\ out2 = <<>>
    /\ phase = 0
    /\ ConcIdle

Api == <<API_KEY, schema, last, Harness, bulk, fetched>>

\* main.py:88-90: d = normalize_domain(domain); con = get_conn(); cur = con.cursor()
ConcCall(c, domain, redirect) ==
    /\ pc[c] = "idle"
    /\ pc' = [pc EXCEPT ![c] = "execute"]
    /\ req' = [req EXCEPT ![c] = [domain |-> normalize_domain(domain), redirect |-> redirect]]
    /\ outcome' = [outcome EXCEPT ![c] = "none"]
    /\ UNCHANGED <<Api, mappings, txn, writer, lastWrite, window>>

\* the INSERT staged from the rows the connection saw, without the write lock
ConcExecuteNoLock(c) ==
    /\ pc[c] = "execute"
    /\ LET w == InsertOnConflictUpdate(mappings, req[c].domain, req[c].redirect)
       IN  /\ pc' = [pc EXCEPT ![c] = "commit"]
           /\ txn' = [txn EXCEPT ![c] = w.rows]
           /\ writer' = c
           /\ UNCHANGED outcome
    /\ UNCHANGED <<Api, mappings, req, lastWrite, window>>

\* main.py:91: cur.execute(INSERT ... ON CONFLICT ...): the statement takes the
\* write lock, reads the committed rows and stages its change in the
\* connection's transaction; an exception ends the call and rolls back
ConcExecute(c) ==
    /\ pc[c] = "execute"
    /\ writer = None
    /\ LET w == InsertOnConflictUpdate(mappings, req[c].domain, req[c].redirect)
       IN  IF w.raised
           THEN /\ pc' = [pc EXCEPT ![c] = "idle"]
                /\ outcome' = [outcome EXCEPT ![c] = "raised"]
                /\ UNCHANGED <<txn, writer>>
           ELSE /\ pc' = [pc EXCEPT ![c] = "commit"]
                /\ txn' = [txn EXCEPT ![c] = w.rows]
                /\ writer' = c
                /\ UNCHANGED outcome
    /\ UNCHANGED <<Api, mappings, req, lastWrite, window>>

\* main.py:92 and 101: con.commit() writes the staged rows and releases the lock
ConcCommit(c) ==
    /\ pc[c] = "commit"
    /\ mappings' = txn[c]
    /\ writer' = None
    /\ txn' = [txn EXCEPT ![c] = {}]
    /\ lastWrite' = [lastWrite EXCEPT ![req[c].domain] = req[c].redirect]
    /\ window' = [d \in Callers |->
                     IF pc[d] = "selectall" \/ (pc[d] = "select" /\ req[d].domain = req[c].domain)
                     THEN [window[d] EXCEPT ![req[c].domain] = @ \cup {req[c].redirect}]
                     ELSE window[d]]
    /\ pc' = [pc EXCEPT ![c] = "close"]
    /\ UNCHANGED <<Api, req, outcome>>

\* main.py:93 and 102-103: con.close(), and the function returns; its locals
\* (d, changed) are gone
ConcClose(c) ==
    /\ pc[c] = "close"
    /\ pc' = [pc EXCEPT ![c] = "idle"]
    /\ outcome' = [outcome EXCEPT ![c] = "ok"]
    /\ req' = [req EXCEPT ![c] = NoReq]
    /\ fetched' = [fetched EXCEPT ![c] = IF @.what = "rowcount" THEN NoFetch ELSE @]
    /\ UNCHANGED <<API_KEY, schema, last, Harness, bulk, mappings, txn, writer,
                   lastWrite, window>>

ConcNext ==
    \/ \E c \in Callers, domain \in ConcDomains, redirect \in Redirects :
           ConcCall(c, domain, redirect)
    \/ \E c \in Callers : ConcExecute(c)
    \/ \E c \in Callers : ConcCommit(c)
    \/ \E c \in Callers : ConcClose(c)

SpecConc == ConcInit /\ [][ConcNext]_vars

----------------------------------------------------------------------------
(* The other store functions called at once with set_mapping: remove_mapping *)
(* (main.py:95-103), get_redirect_for (main.py:78-85) and list_mappings      *)
(* (main.py:105-111), one step per statement.  A SELECT of a new connection  *)
(* reads the rows committed so far; it does not wait for a connection that   *)
(* has staged a change and not yet committed.                                *)

\* the value a key has in the committed rows, Absent without a row
ValueOf(rows, k) ==
    IF RowsFor(rows, k) = {} THEN Absent ELSE (CHOOSE row \in RowsFor(rows, k) : TRUE).redirect

\* main.py:96-98: d = normalize_domain(domain); con = get_conn(); cur = con.cursor()
ConcRemoveCall(c, domain) ==
    /\ pc[c] = "idle"
    /\ pc' = [pc EXCEPT ![c] = "delete"]
    /\ req' = [req EXCEPT ![c] = [domain |-> normalize_domain(domain), redirect |-> Absent]]
    /\ outcome' = [outcome EXCEPT ![c] = "none"]
    /\ UNCHANGED <<Api, mappings, txn, writer, lastWrite, window>>

\* main.py:99-100: cur.execute(DELETE ...) takes the write lock and stages the
\* removal; changed = cur.rowcount
ConcDelete(c) ==
    /\ pc[c] = "delete"
    /\ writer = None
    /\ LET del == DeleteWhere(mappings, req[c].domain)
       IN  /\ txn' = [txn EXCEPT ![c] = del.rows]
           /\ fetched' = [fetched EXCEPT ![c] = [NoFetch EXCEPT !.what = "rowcount",
                                                                !.key = req[c].domain,
                                                                !.rowcount = del.rowcount]]
    /\ writer' = c
    /\ pc' = [pc EXCEPT ![c] = "commit"]
    /\ UNCHANGED <<API_KEY, schema, last, Harness, bulk, mappings, req, outcome,
                   lastWrite, window>>

\* main.py:79-81: d = normalize_domain(domain); con = get_conn(); cur = con.cursor()
ConcGetCall(c, domain) ==
    /\ pc[c] = "idle"
    /\ pc' = [pc EXCEPT ![c] = "select"]
    /\ req' = [req EXCEPT ![c] = [domain |-> normalize_domain(domain), redirect |-> None]]
    /\ outcome' = [outcome EXCEPT ![c] = "none"]
    /\ window' = [window EXCEPT ![c] =
                     [NoWindow EXCEPT ![normalize_domain(domain)] =
                                          {ValueOf(mappings, normalize_domain(domain))}]]
    /\ UNCHANGED <<Api, mappings, txn, writer, lastWrite>>

\* a lookup answered from the row the caller fetched for the same key before
ConcSelectCached(c) ==
    /\ pc[c] = "select"
    /\ fetched' = [fetched EXCEPT ![c] =
                      IF fetched[c].what = "row" /\ fetched[c].key = req[c].domain
                      THEN fetched[c]
                      ELSE [NoFetch EXCEPT !.what = "row",
                                           !.key = req[c].domain,
                                           !.row = ValueOf(mappings, req[c].domain)]]
    /\ pc' = [pc EXCEPT ![c] = "readclose"]
    /\ UNCHANGED <<API_KEY, schema, last, Harness, bulk, mappings, req, txn, writer,
                   outcome, lastWrite, window>>

\* main.py:82-83: cur.execute(SELECT redirect ... WHERE domain = ?); row = cur.fetchone()
ConcSelect(c) ==
    /\ pc[c] = "select"
    /\ fetched' = [fetched EXCEPT ![c] = [NoFetch EXCEPT !.what = "row",
                                                         !.key = req[c].domain,
                                                         !.row = ValueOf(mappings, req[c].domain)]]
    /\ pc' = [pc EXCEPT ![c] = "readclose"]
    /\ UNCHANGED <<API_KEY, schema, last, Harness, bulk, mappings, req, txn, writer,
                   outcome, lastWrite, window>>

\* main.py:106-107: con = get_conn(); cur = con.cursor()
ConcListCall(c) ==
    /\ pc[c] = "idle"
    /\ pc' = [pc EXCEPT ![c] = "selectall"]
    /\ req' = [req EXCEPT ![c] = NoReq]
    /\ outcome' = [outcome EXCEPT ![c] = "none"]
    /\ window' = [window EXCEPT ![c] = [k \in ConcKeys |-> {ValueOf(mappings, k)}]]
    /\ UNCHANGED <<Api, mappings, txn, writer, lastWrite>>

\* main.py:108-109: cur.execute(SELECT ... ORDER BY domain); rows = cur.fetchall()
ConcSelectAll(c) ==
    /\ pc[c] = "selectall"
    /\ fetched' = [fetched EXCEPT ![c] = [NoFetch EXCEPT !.what = "rows",
                                                         !.rows = SelectOrderByDomain(mappings)]]
    /\ pc' = [pc EXCEPT ![c] = "readclose"]
    /\ UNCHANGED <<API_KEY, schema, last, Harness, bulk, mappings, req, txn, writer,
                   outcome, lastWrite, window>>

\* main.py:84-85 and 110-111: con.close(), and the function returns what it
\* fetched; fetched keeps the row of the latest lookup
ConcReadClose(c) ==
    /\ pc[c] = "readclose"
    /\ pc' = [pc EXCEPT ![c] = "idle"]
    /\ outcome' = [outcome EXCEPT ![c] = "ok"]
    /\ req' = [req EXCEPT ![c] = NoReq]
    /\ fetched' = [fetched EXCEPT ![c] = IF @.what = "rows" THEN NoFetch ELSE @]
    /\ window' = [window EXCEPT ![c] = NoWindow]
    /\ UNCHANGED <<API_KEY, schema, last, Harness, bulk, mappings, txn, writer, lastWrite>>

\* one caller reads while the other writes
Readers == {"c1"}
Writers == {"c2"}
ReadRedirects == {"https://x", "https://y"}

ReadNext ==
    \/ \E c \in Writers, domain \in ConcDomains, redirect \in ReadRedirects :
           ConcCall(c, domain, redirect)
    \/ \E c \in Writers : ConcExecute(c)
    \/ \E c \in Writers : ConcCommit(c)
    \/ \E c \in Writers : ConcClose(c)
    \/ \E c \in Writers, domain \in ConcDomains : ConcRemoveCall(c, domain)
    \/ \E c \in Writers : ConcDelete(c)
    \/ \E c \in Readers, domain \in ConcDomains : ConcGetCall(c, domain)
    \/ \E c \in Readers : ConcSelect(c)
    \/ \E c \in Readers : ConcListCall(c)
    \/ \E c \in Readers : ConcSelectAll(c)
    \/ \E c \in Readers : ConcReadClose(c)

SpecRead == ConcInit /\ [][ReadNext]_vars

----------------------------------------------------------------------------
(* bulk_register, main.py:173-178, one step per statement of the set_mapping *)
(* calls it makes, with a database that can fail: cur.execute and con.commit *)
(* raise sqlite3.OperationalError when the database cannot be written, and   *)
(* nothing in main.py catches it.                                            *)

BulkCallers == {"c1"}

\* main.py:174-175: the handler is entered with the parsed items
BulkCall(c, items) ==
    /\ pc[c] = "idle"
    /\ pc' = [pc EXCEPT ![c] = "loop"]
    /\ bulk' = [bulk EXCEPT ![c] = [active |-> TRUE, items |-> items, todo |-> items,
                                     before |-> mappings]]
    /\ outcome' = [outcome EXCEPT ![c] = "none"]
    /\ UNCHANGED <<API_KEY, schema, last, Harness, fetched, mappings, req, txn, writer,
                   lastWrite, window>>

\* main.py:175-176: the next item has an empty domain and is skipped
BulkSkip(c) ==
    /\ pc[c] = "loop"
    /\ bulk[c].todo # <<>>
    /\ Head(bulk[c].todo).domain = <<>>
    /\ bulk' = [bulk EXCEPT ![c].todo = Tail(@)]
    /\ UNCHANGED <<API_KEY, schema, last, Harness, fetched, mappings, pc, req, txn, writer,
                   outcome, lastWrite, window>>

\* main.py:177 and 88-90: set_mapping is called for the next item
BulkItem(c) ==
    /\ pc[c] = "loop"
    /\ bulk[c].todo # <<>>
    /\ Head(bulk[c].todo).domain # <<>>
    /\ req' = [req EXCEPT ![c] = [domain |-> normalize_domain(Head(bulk[c].todo).domain),
                                   redirect |-> Head(bulk[c].todo).redirect]]
    /\ bulk' = [bulk EXCEPT ![c].todo = Tail(@)]
    /\ pc' = [pc EXCEPT ![c] = "execute"]
    /\ UNCHANGED <<API_KEY, schema, last, Harness, fetched, mappings, txn, writer,
                   outcome, lastWrite, window>>

\* main.py:93: con.close(); set_mapping returns into the loop
BulkItemClose(c) ==
    /\ pc[c] = "close"
    /\ pc' = [pc EXCEPT ![c] = "loop"]
    /\ req' = [req EXCEPT ![c] = NoReq]
    /\ UNCHANGED <<Api, mappings, txn, writer, outcome, lastWrite, window>>

\* main.py:178: the loop is over and the handler returns {"ok": True, "added": ...}
BulkReturn(c) ==
    /\ pc[c] = "loop"
    /\ bulk[c].todo = <<>>
    /\ pc' = [pc EXCEPT ![c] = "idle"]
    /\ outcome' = [outcome EXCEPT ![c] = "ok"]
    /\ bulk' = [bulk EXCEPT ![c] = NoBulk]
    /\ UNCHANGED <<API_KEY, schema, last, Harness, fetched, mappings, req, txn, writer,
                   lastWrite, window>>

\* main.py:91-92: cur.execute or con.commit raises; the open transaction is
\* rolled back, the exception leaves set_mapping and bulk_register, and the
\* request is answered 500
StorageFails(c) ==
    /\ pc[c] \in {"execute", "commit"}
    /\ pc' = [pc EXCEPT ![c] = "idle"]
    /\ outcome' = [outcome EXCEPT ![c] = "raised"]
    /\ txn' = [txn EXCEPT ![c] = {}]
    /\ writer' = IF writer = c THEN None ELSE writer
    /\ req' = [req EXCEPT ![c] = NoReq]
    /\ bulk' = [bulk EXCEPT ![c].active = FALSE]
    /\ UNCHANGED <<API_KEY, schema, last, Harness, fetched, mappings, lastWrite, window>>

BulkNext ==
    \/ \E c \in BulkCallers, items \in BulkBodies : BulkCall(c, items)
    \/ \E c \in BulkCallers : BulkSkip(c)
    \/ \E c \in BulkCallers : BulkItem(c)
    \/ \E c \in BulkCallers : ConcExecute(c)
    \/ \E c \in BulkCallers : ConcCommit(c)
    \/ \E c \in BulkCallers : BulkItemClose(c)
    \/ \E c \in BulkCallers : BulkReturn(c)
    \/ \E c \in BulkCallers : StorageFails(c)

SpecBulk == ConcInit /\ [][BulkNext]_vars

----------------------------------------------------------------------------
(* Normalizer harness: the inputs the pure-function claims range over *)

Chunks == { <<" ">>, HTTP, HTTPS, WWW, <<"/">>, <<"a">>, <<"B">>,
            <<"W", "W", "W", ".">>, <<"H", "T", "T", "P", ":", "/", "/">> }

RECURSIVE Concats(_)
Concats(n) == IF n = 0 THEN {<<>>}
              ELSE Concats(n - 1) \cup {s \o c : s \in Concats(n - 1), c \in Chunks}

NormInputs == Concats(MaxParts)

NormInit ==
    /\ input \in NormInputs
    /\ out1 = <<>>
    /\ out2 = <<>>
    /\ phase = 0
    /\ API_KEY = None
    /\ schema = TRUE
    /\ mappings = {}
    /\ last = Start
    /\ ConcIdle

\* d = normalize_domain(domain), as every store function starts (main.py:79, 88, 96)
NormalizeOnce ==
    /\ phase = 0
    /\ out1' = normalize_domain(input)
    /\ phase' = 1
    /\ UNCHANGED <<input, out2, API_KEY, schema, mappings, last, Conc>>

\* the stored key is normalized again by the next call that is given it
NormalizeAgain ==
    /\ phase = 1
    /\ out2' = normalize_domain(out1)
    /\ phase' = 2
    /\ UNCHANGED <<input, out1, API_KEY, schema, mappings, last, Conc>>

NormNext == NormalizeOnce \/ NormalizeAgain

SpecNorm == NormInit /\ [][NormNext]_vars

----------------------------------------------------------------------------
(* Claims about the normalizer, checked under SpecNorm *)

\* C3 (as claimed): normalize(normalize(s)) = normalize(s) for every string s.
C3_Idempotent == phase = 2 => out2 = out1

\* The five-step reference of the claim: trim, lowercase, strip one scheme
\* prefix ("http://" if present, else "https://"), strip one "www.", keep the
\* part before the first "/".
ClaimedReference(s) ==
    LET t == Lower(Strip(s))
        u == IF StartsWith(t, HTTP) THEN Drop(t, Len(HTTP))
             ELSE IF StartsWith(t, HTTPS) THEN Drop(t, Len(HTTPS))
             ELSE t
        v == IF StartsWith(u, WWW) THEN Drop(u, Len(WWW)) ELSE u
        cut == {i \in 1..Len(v) : v[i] = SLASH}
    IN  IF cut = {} THEN v
        ELSE SubSeq(v, 1, (CHOOSE i \in cut : \A j \in cut : i <= j) - 1)

\* The same reference with step 3 as the code has it: "http://" is stripped
\* if present, and then "https://" is stripped if the rest starts with it.
AmendedReference(s) ==
    LET t == Lower(Strip(s))
        n1 == IF StartsWith(t, HTTP) THEN Len(HTTP) ELSE 0
        n2 == IF StartsWith(Drop(t, n1), HTTPS) THEN Len(HTTPS) ELSE 0
        n3 == IF StartsWith(Drop(t, n1 + n2), WWW) THEN Len(WWW) ELSE 0
        v == Drop(t, n1 + n2 + n3)
        cut == {i \in 1..Len(v) : v[i] = SLASH}
    IN  IF cut = {} THEN v
        ELSE SubSeq(v, 1, (CHOOSE i \in cut : \A j \in cut : i <= j) - 1)

\* C4 (as claimed): normalize_domain returns the five-step reference with at
\* most one scheme prefix removed.
C4_ClaimedReference == phase >= 1 => out1 = ClaimedReference(input)

\* C4 (amended): normalize_domain returns the reference in which "http://" and
\* then "https://" are each stripped when present, so that an input beginning
\* "http://https://" loses both.
C4_AmendedReference == phase >= 1 => out1 = AmendedReference(input)

\* C4 witness: an input beginning "http://https://" has been normalized.
C4_Witness ==
    /\ phase >= 1
    /\ StartsWith(Lower(Strip(input)), HTTP \o HTTPS)
    /\ out1 = <<"a">>

----------------------------------------------------------------------------
(* Claims about the store and the routes, checked under Spec *)

\* C1: after any sequence of init_db, register, bulk_register, unregister,
\* check and mappings calls, the table holds at most one row for each domain key.
C1_OneRowPerKey ==
    \A r1 \in mappings, r2 \in mappings : r1.domain = r2.domain => r1 = r2

\* C1 witness: a register call has written a redirect to a key whose row held
\* a different redirect.
C1_Witness ==
    /\ last.op = "register"
    /\ last.status = 200
    /\ last.prior = {Row(<<"a">>, "https://x")}
    /\ last.redirect = "https://y"
    /\ Cardinality(mappings) >= 2

\* C2: right after upsert(d1, r), getRedirect(d2) returns r for every raw d2
\* with normalize(d2) = normalize(d1).
C2_ReadAfterWrite ==
    (last.op = "register" /\ last.status = 200) =>
        \A d2 \in RawDomains :
            normalize_domain(d2) = normalize_domain(last.domain) =>
                get_redirect_for(mappings, d2) = last.redirect

\* C2 witness: "A" was registered and a lookup of "www.a" returns its redirect.
C2_Witness ==
    /\ last.op = "register"
    /\ last.status = 200
    /\ last.domain = <<"A">>
    /\ last.redirect = "https://x"
    /\ get_redirect_for(mappings, WWW \o <<"a">>) = "https://x"

\* C5 (as claimed): empty and whitespace-only raw domains are rejected by every
\* operation, so that no row of the table has the empty string as its key.
C5_NoEmptyKey == \A row \in mappings : row.domain # <<>>

\* C6 (as claimed): every stored key is in normalized form, normalize(k) = k,
\* so that the row is the one getRedirect(k) finds and delete(k) removes.
C6_KeysNormalized ==
    \A row \in mappings :
        /\ normalize_domain(row.domain) = row.domain
        /\ get_redirect_for(mappings, row.domain) = row.redirect

\* C7: an upsert on a key that has a row never fails and replaces the redirect
\* in place: the key has exactly one row, holding the new redirect, and
\* getRedirect returns it (None after upsert(a, x), upsert(a, None)).
C7_UpsertReplaces ==
    (last.op = "register" /\ last.db = "write" /\ last.prior # {}) =>
        /\ last.status = 200
        /\ RowsFor(mappings, normalize_domain(last.domain)) =
               {Row(normalize_domain(last.domain), last.redirect)}
        /\ get_redirect_for(mappings, last.domain) = last.redirect

\* C7 witness: upsert(a, None) was applied to a row holding "https://x".
C7_Witness ==
    /\ last.op = "register"
    /\ last.status = 200
    /\ last.redirect = None
    /\ last.prior = {Row(<<"a">>, "https://x")}
    /\ RowsFor(mappings, <<"a">>) = {Row(<<"a">>, None)}

\* C8: delete(raw) returns true exactly when a row for normalize(raw) existed
\* right before the call; after true, getRedirect(raw) is absent; after false,
\* the table is unchanged and the unregister route answers 404.
C8_DeleteResult ==
    [][ (last'.op = "unregister" /\ last'.db = "write") =>
            LET k == normalize_domain(last'.domain)
            IN  /\ last'.status \in {200, 404}
                /\ last'.status = 200 <=> RowsFor(mappings, k) # {}
                /\ last'.status = 200 =>
                       /\ RowsFor(mappings', k) = {}
                       /\ get_redirect_for(mappings', last'.domain) = None
                /\ last'.status = 404 => mappings' = mappings ]_vars

\* C8 witness: an unregister call has removed an existing row.
C8_Witness ==
    /\ last.op = "unregister"
    /\ last.status = 200
    /\ last.prior = {Row(<<"a">>, "https://x")}
    /\ RowsFor(mappings, <<"a">>) = {}
    /\ mappings # {}

GatedRoutes == {"register", "bulk_register", "unregister", "mappings"}

\* C9: with an API key configured, a register, bulk_register, unregister or
\* mappings request whose X-API-Key is missing or different is answered 401
\* without reading or changing the table; check is never answered 401; with no
\* API key configured no request is answered 401.
C9_ApiKeyGate ==
    [][ LET configured == API_KEY # None /\ API_KEY # ""
        IN  /\ (configured /\ last'.op \in GatedRoutes /\ last'.hdr # API_KEY) =>
                   /\ last'.status = 401
                   /\ last'.db = "none"
                   /\ mappings' = mappings
            /\ (configured /\ last'.op \in GatedRoutes /\ last'.hdr = API_KEY) =>
                   last'.status # 401
            /\ last'.op = "check" => last'.status # 401
            /\ ~configured => last'.status # 401 ]_vars

\* C9 witness: with the key configured, an unregister request with a wrong key
\* was answered 401 and the row it names is still there.
C9_Witness ==
    /\ API_KEY = "secret"
    /\ last.op = "unregister"
    /\ last.hdr = "wrong"
    /\ last.status = 401
    /\ RowsFor(mappings, normalize_domain(last.domain)) # {}

----------------------------------------------------------------------------
(* Claims about concurrent callers, checked under SpecConc *)

\* C10: concurrent upserts from two callers leave, in every interleaving,
\* exactly one row for each written key, holding the redirect of the upsert
\* committed last, and no upsert fails.
C10_LastCommitWins ==
    /\ \A k \in ConcKeys :
           IF lastWrite[k] = Absent THEN RowsFor(mappings, k) = {}
           ELSE RowsFor(mappings, k) = {Row(k, lastWrite[k])}
    /\ \A c \in Callers : outcome[c] # "raised"

\* C10 witness: both callers have committed an upsert to the same key with
\* different redirects and neither call has returned yet.
C10_Witness ==
    /\ pc["c1"] = "close"
    /\ pc["c2"] = "close"
    /\ req["c1"].domain = req["c2"].domain
    /\ req["c1"].redirect # req["c2"].redirect
    /\ lastWrite[req["c1"].domain] = req["c2"].redirect

----------------------------------------------------------------------------
(* Claims about listing, lookup and bulk registration, checked under Spec *)

\* lexicographic order of two strings by code point
LexLess(a, b) ==
    \E i \in 1..(Len(b)) :
        /\ \A j \in 1..(i - 1) : j <= Len(a) /\ a[j] = b[j]
        /\ \/ i = Len(a) + 1
           \/ i <= Len(a) /\ Ord[a[i]] < Ord[b[i]]

\* C12: list() returns exactly the rows of the table at the moment of the
\* call, each once, ordered by domain ascending in lexicographic order.
C12_ListSorted ==
    (last.op = "mappings" /\ last.status = 200) =>
        LET m == last.body.mapping
        IN  /\ {m[i] : i \in 1..Len(m)} = mappings
            /\ Len(m) = Cardinality(mappings)
            /\ \A i \in 1..(Len(m) - 1) : LexLess(m[i].domain, m[i + 1].domain)

\* C12 witness: a listing of three rows, keys "", "a" and "www.a" in that order.
C12_Witness ==
    /\ last.op = "mappings"
    /\ last.status = 200
    /\ Len(last.body.mapping) = 3
    /\ last.body.mapping[1].domain = <<>>
    /\ last.body.mapping[2].domain = <<"a">>
    /\ last.body.mapping[3].domain = WWW \o <<"a">>

\* C13: getRedirect returns None both for a key with no row and for a key
\* whose row has a NULL redirect, while the store tells them apart: the NULL
\* row is in list() and delete on it returns true, delete on a key without a
\* row returns false.
C13_NullVersusAbsent ==
    \A d \in RawDomains :
        LET k == normalize_domain(d)
            listed == {list_mappings(mappings)[i] : i \in 1..Len(list_mappings(mappings))}
        IN  /\ RowsFor(mappings, k) = {} =>
                   /\ get_redirect_for(mappings, d) = None
                   /\ ~remove_mapping(mappings, d).result
                   /\ \A row \in listed : row.domain # k
            /\ RowsFor(mappings, k) = {Row(k, None)} =>
                   /\ get_redirect_for(mappings, d) = None
                   /\ remove_mapping(mappings, d).result
                   /\ Row(k, None) \in listed

\* C13 witness: a lookup answered null for a key whose row holds NULL, while
\* another key has no row.
C13_Witness ==
    /\ last.op = "check"
    /\ last.status = 200
    /\ last.domain = <<"A">>
    /\ last.body.redirect = None
    /\ Row(<<"a">>, None) \in mappings
    /\ RowsFor(mappings, WWW \o <<"a">>) = {}

\* C14 (as claimed): register(d, null) removes the mapping of d, so that the
\* table has no row for normalize(d) afterwards.
C14_RegisterNullRemoves ==
    (last.op = "register" /\ last.status = 200 /\ last.redirect = None) =>
        RowsFor(mappings, normalize_domain(last.domain)) = {}

\* C16: check and mappings are read-only: the table after the call is the
\* table before it.
C16_ReadOnly ==
    [][ last'.op \in {"check", "mappings"} =>
            /\ mappings' = mappings
            /\ schema' = schema ]_vars

\* C16 witness: a lookup has been answered from a table that holds rows.
C16_Witness ==
    /\ last.op = "check"
    /\ last.status = 200
    /\ last.body.redirect = "https://y"
    /\ Cardinality(mappings) = 2

\* upsert(item.domain, item.redirect) applied to the items i..Len(items) in order
RECURSIVE UpsertEach(_, _, _)
UpsertEach(rows, items, i) ==
    IF i > Len(items) THEN rows
    ELSE UpsertEach(set_mapping(rows, items[i].domain, items[i].redirect).rows, items, i + 1)

C19_OtherKeysUntouched ==
    [][ (last'.op \in {"register", "unregister"}) =>
            \A row \in mappings \cup mappings' :
                row.domain # normalize_domain(last'.domain) =>
                    RowsFor(mappings', row.domain) = RowsFor(mappings, row.domain) ]_vars

\* C19 witness: a register call replaced the redirect of "a" while the rows of
\* "" and "www.a" hold another redirect.
C19_Witness ==
    /\ last.op = "register"
    /\ last.status = 200
    /\ last.prior = {Row(<<"a">>, "https://x")}
    /\ mappings = {Row(<<>>, "https://x"), Row(<<"a">>, "https://y"),
                   Row(WWW \o <<"a">>, "https://x")}

\* C20 (as claimed): the "added" count of bulk_register is the number of items
\* for which an upsert was performed; items skipped for an empty domain are
\* not counted.
C20_AddedCountsUpserts ==
    (last.op = "bulk_register" /\ last.status = 200) =>
        last.body.added = Cardinality({i \in 1..Len(last.items) : last.items[i].domain # <<>>})

----------------------------------------------------------------------------
(* Claim about schema creation, checked under SpecBoot *)

\* C17: init_db is idempotent and non-destructive: called when the table
\* exists, at any point, it leaves every row unchanged; called when storage
\* is absent it yields an empty table.
C17_InitDbKeepsRows ==
    [][ last'.op = "init_db" =>
            /\ schema'
            /\ schema => mappings' = mappings
            /\ ~schema => mappings' = {} ]_vars

\* C17 witness: init_db has run again on a table that holds three rows.
C17_Witness ==
    /\ last.op = "init_db"
    /\ schema
    /\ Cardinality(mappings) = 3

----------------------------------------------------------------------------
(* Claim about concurrent reads, checked under SpecRead *)

\* C15: a getRedirect or list call that starts after a write to key k has
\* returned observes that write or a later write to k: what it fetches for k
\* is a value k has had since the call began, never an earlier one.
C15_NoStaleRead ==
    \A c \in Callers :
        pc[c] = "readclose" =>
            /\ fetched[c].what = "row" => fetched[c].row \in window[c][req[c].domain]
            /\ fetched[c].what = "rows" =>
                   \A k \in ConcKeys :
                       ValueOf({fetched[c].rows[i] : i \in 1..Len(fetched[c].rows)}, k)
                           \in window[c][k]

\* C15 witness: c1 has fetched, for the key it asked for, the redirect of a
\* write from which c2 has returned, and the key had no other value since
\* c1's call began.
C15_Witness ==
    /\ pc["c1"] = "readclose"
    /\ fetched["c1"].what = "row"
    /\ fetched["c1"].row = "https://y"
    /\ window["c1"][req["c1"].domain] = {"https://y"}
    /\ outcome["c2"] = "ok"
    /\ pc["c2"] = "idle"
    /\ lastWrite[req["c1"].domain] = "https://y"

----------------------------------------------------------------------------
(* Claim about failure part-way, checked under SpecBulk *)

\* C11 (as claimed): every mutating operation, bulk registration included, is
\* all-or-nothing: when it fails the table equals its state before the call,
\* and while it runs the table a reader would see has either none or all of
\* its writes.
C11_AllOrNothing ==
    \A c \in BulkCallers :
        /\ outcome[c] = "raised" => mappings = bulk[c].before
        /\ bulk[c].active =>
               mappings \in {bulk[c].before, bulk_loop(bulk[c].before, bulk[c].items).rows}

====
